---- MODULE Spec2Model ----
(***************************************************************************)
(* Model of the EX3 voice agent (DanMetes/Ex3_voice_agent).                *)
(*                                                                         *)
(*   src/src/state.py  ConversationState: the bounded conversation memory  *)
(*   src/src/asr.py    transcribe / transcribe_google / transcribe_whisper *)
(*   src/src/llm.py    chat / chat_hf / chat_ollama                        *)
(*   src/src/tts.py    synthesize_to_wav                                   *)
(*   src/main.py       the four POST endpoints and the module-level state  *)
(*                                                                         *)
(* Python values are modelled as Python has them: a message is a dict, a   *)
(* heap object with an identity; the deque `history` and the list that     *)
(* get_messages returns hold references to these objects.                  *)
(*                                                                         *)
(* Specifications:                                                         *)
(*   StateSpec  one ConversationState driven by arbitrary calls, one at a  *)
(*              time (the class in isolation)                              *)
(*   AliasSpec  StateSpec plus a caller that keeps the list returned by    *)
(*              get_messages and mutates it                                *)
(*   Spec       the server of main.py handling requests one at a time      *)
(*   ConcSpec   the server with /reply and /reset requests in flight at    *)
(*              the same time, statement by statement                      *)
(***************************************************************************)
EXTENDS Integers, Sequences, FiniteSets, TLC

VARIABLES
    state,      \* the ConversationState object: max_turns, system_prompt, history
    heap,       \* the live message dicts: object id -> [role, content]
    appended,   \* ghost: the messages appended since the last reset, in order
    ctor,       \* ghost: the arguments the ConversationState was constructed with
    snap,       \* the list a caller holds from get_messages (references)
    last,       \* the most recent call or request and how it ended
    tmpdirs,    \* number of temporary directories that exist on disk
    loop,       \* the /reply request whose handler runs on the event loop (0: none)
    reqs,       \* the concurrent /reply requests: where each one is in its handler
    resets,     \* the concurrent /reset requests: where each one is
    origin      \* ghost: for each message of history, the request that appended it

vars == <<state, heap, appended, ctor, snap, last, tmpdirs, loop, reqs, resets, origin>>

\* The variables of request scheduling.
sched == <<loop, reqs, resets, origin>>

----------------------------------------------------------------------------
(* Bounds of the model. *)

\* max_turns is drawn from -1 .. MaxTurnsBound (MAX_TURNS is any integer).
MaxTurnsBound == 2

\* At most this many appends between two resets.
MaxAppends == 5

\* Texts of user messages and of generated replies.
UserTexts == {"a1", "a2", "a3"}

ReplyTexts == {"b1", "b2"}

MaxTurnsChoices == (-1)..MaxTurnsBound

\* Python's None.
None == "<None>"

CUSTOM_PROMPT == "Be brief."

\* state.py:8-11, the built-in system prompt.
DEFAULT_PROMPT == "You are a helpful, concise voice assistant. Keep replies short (1-3 sentences) and ask clarifying questions when needed."

\* The system_prompt arguments tried: absent, empty (falsy), and a custom one.
PromptArgs == {None, "", CUSTOM_PROMPT}

----------------------------------------------------------------------------
(* Python values. *)

\* A message dict { "role": role, "content": content }.
Msg(role, content) == [role |-> role, content |-> content]

Range(s) == {s[i] : i \in 1..Len(s)}

\* The id a new object gets: the smallest one not in use (ids are not observable).
Fresh(hp) == CHOOSE i \in 0..Cardinality(DOMAIN hp) :
                 i \notin DOMAIN hp /\ \A j \in 0..(i - 1) : j \in DOMAIN hp

\* Allocation of object v.
Alloc(hp, v) == [i \in DOMAIN hp \cup {Fresh(hp)} |-> IF i \in DOMAIN hp THEN hp[i] ELSE v]

\* Reference counting: an object no reference reaches is freed.
Collect(hp, refs) == [i \in DOMAIN hp \cap refs |-> hp[i]]

\* The values a sequence of references denotes.
Deref(hp, refs) == [i \in 1..Len(refs) |-> hp[refs[i]]]

----------------------------------------------------------------------------
(* src/src/state.py: ConversationState.  Each method is an operator from    *)
(* the object st and the heap hp to the object and heap after the call,     *)
(* with `raised` the exception that left the call (None: it returned).      *)

\* __init__(max_turns, system_prompt): `system_prompt or DEFAULT`.
ConversationState(mt, sp) ==
    [max_turns     |-> mt,
     system_prompt |-> IF sp = None \/ sp = "" THEN DEFAULT_PROMPT ELSE sp,
     history       |-> <<>>]

\* Mutant: the bound is off by one (one message too many is kept).
TrimCondition_offbyone(h, mt) == Len(h) > mt * 2 + 1

\* Mutant: `>=` for `>` (pops once more than it should).
TrimCondition_geq(h, mt) == Len(h) >= mt * 2

\* The loop condition of _trim.
TrimCondition(h, mt) == Len(h) > mt * 2

\* Mutant: pop() for popleft(): the newest message is evicted.
RECURSIVE _trim_newest(_, _)
_trim_newest(h, mt) ==
    IF Len(h) > mt * 2
    THEN IF h = <<>>
         THEN [history |-> h, raised |-> "IndexError"]
         ELSE _trim_newest(SubSeq(h, 1, Len(h) - 1), mt)
    ELSE [history |-> h, raised |-> None]

\* _trim: while len(history) > max_turns*2: history.popleft().
\* popleft on an empty deque raises IndexError.
RECURSIVE _trim(_, _)
_trim(h, mt) ==
    IF TrimCondition(h, mt)
    THEN IF h = <<>>
         THEN [history |-> h, raised |-> "IndexError"]
         ELSE _trim(Tail(h), mt)
    ELSE [history |-> h, raised |-> None]

\* Mutant: appendleft() for append().
AppendAndTrim_left(st, hp, role, text) ==
    LET hp1 == Alloc(hp, Msg(role, text))
        t   == _trim(<<Fresh(hp)>> \o st.history, st.max_turns)
    IN  [state  |-> [st EXCEPT !.history = t.history],
         heap   |-> hp1,
         raised |-> t.raised]

\* history.append({role, content}); self._trim()
AppendAndTrim(st, hp, role, text) ==
    LET hp1 == Alloc(hp, Msg(role, text))
        t   == _trim(Append(st.history, Fresh(hp)), st.max_turns)
    IN  [state  |-> [st EXCEPT !.history = t.history],
         heap   |-> hp1,
         raised |-> t.raised]

add_user(st, hp, text) == AppendAndTrim(st, hp, "user", text)

\* Mutant: add_assistant appends with the role of add_user.
add_assistant_asuser(st, hp, text) == AppendAndTrim(st, hp, "user", text)

add_assistant(st, hp, text) == AppendAndTrim(st, hp, "assistant", text)

\* Mutant: reset drops only the oldest message.
reset_oldest(st, hp) ==
    [state  |-> [st EXCEPT !.history = IF st.history = <<>> THEN <<>> ELSE Tail(st.history)],
     heap   |-> hp,
     raised |-> None]

\* reset: self.history.clear()
reset(st, hp) == [state |-> [st EXCEPT !.history = <<>>], heap |-> hp, raised |-> None]

\* Mutant: the system message is left out when there is history.
get_messages_nosystem(st, hp) ==
    IF st.history = <<>>
    THEN [msgs |-> <<Fresh(hp)>>, heap |-> Alloc(hp, Msg("system", st.system_prompt))]
    ELSE [msgs |-> st.history, heap |-> hp]

\* get_messages: a new list, a new system dict, then the dicts of history
\* themselves (list(self.history) copies the references, not the dicts).
get_messages(st, hp) ==
    [msgs |-> <<Fresh(hp)>> \o st.history,
     heap |-> Alloc(hp, Msg("system", st.system_prompt))]

\* The value of the list get_messages returns.
Snapshot(st, hp) == LET g == get_messages(st, hp) IN Deref(g.heap, g.msgs)

\* The messages of history, as values.
History == Deref(heap, state.history)

----------------------------------------------------------------------------
(* A record of the most recent call or request: its name, argument, the    *)
(* backend it was routed to and how often that backend was invoked,        *)
(* whether it returned ("ok") or raised ("error"), and what it returned or *)
(* raised.                                                                 *)

Request(op, arg, via, calls, status, result) ==
    [op |-> op, arg |-> arg, via |-> via, calls |-> calls, status |-> status, result |-> result]

Call(op, arg, status, result) == Request(op, arg, None, 0, status, result)

\* The state after a method call r left the object, with the objects no
\* longer referenced freed.
Commit(r, held) ==
    /\ state' = r.state
    /\ heap' = Collect(r.heap, Range(r.state.history) \cup Range(held))

Outcome(op, arg, r) ==
    IF r.raised = None THEN Call(op, arg, "ok", None) ELSE Call(op, arg, "error", r.raised)

----------------------------------------------------------------------------
(* Requests in flight.  A /reply request is a coroutine (main.py:47, `async *)
(* def`): it runs on the server's one event loop, and since its body has no *)
(* `await` no other coroutine runs between its first and its last           *)
(* statement.  /reset is a plain function (main.py:33, `def`): the event    *)
(* loop hands it to a worker thread, which runs state.reset() whenever the  *)
(* interpreter schedules it, also between two bytecodes of the coroutine.   *)

\* Number of concurrent /reply requests.
MaxConcReplies == 2

\* Number of concurrent /reset requests.
MaxConcResets == 1

ReplyIds == 1..MaxConcReplies

ResetIds == 1..MaxConcResets

\* The event loop runs no handler.
NoLoop == 0

\* A /reply request that has not been sent.
IdleReply == [pc |-> "idle", sent |-> <<>>, reply |-> None, raised |-> None, epoch |-> 0]

\* A /reset request that has not been sent.
IdleReset == [pc |-> "idle", at |-> 0]

\* No request has been sent.
NoRequests ==
    /\ loop = NoLoop
    /\ reqs = [r \in ReplyIds |-> IdleReply]
    /\ resets = [j \in ResetIds |-> IdleReset]
    /\ origin = <<>>

----------------------------------------------------------------------------
(* StateSpec: calls on one ConversationState, one at a time. *)

StateInit ==
    /\ \E mt \in MaxTurnsChoices, sp \in PromptArgs :
          /\ ctor = [max_turns |-> mt, system_prompt |-> sp]
          /\ state = ConversationState(mt, sp)
    /\ heap = <<>>
    /\ appended = <<>>
    /\ snap = <<>>
    /\ last = Call("__init__", None, "ok", None)
    /\ tmpdirs = 0
    /\ NoRequests

\* state.add_user(text)
AddUserCall(text) ==
    LET r == add_user(state, heap, text) IN
    /\ Len(appended) < MaxAppends
    /\ Commit(r, snap)
    /\ appended' = Append(appended, Msg("user", text))
    /\ last' = Outcome("add_user", text, r)
    /\ UNCHANGED <<ctor, snap, tmpdirs, sched>>

\* state.add_assistant(text)
AddAssistantCall(text) ==
    LET r == add_assistant(state, heap, text) IN
    /\ Len(appended) < MaxAppends
    /\ Commit(r, snap)
    /\ appended' = Append(appended, Msg("assistant", text))
    /\ last' = Outcome("add_assistant", text, r)
    /\ UNCHANGED <<ctor, snap, tmpdirs, sched>>

CallAddUser == \E text \in UserTexts : AddUserCall(text)

CallAddAssistant == \E text \in ReplyTexts : AddAssistantCall(text)

CallReset ==
    LET r == reset(state, heap) IN
    /\ Commit(r, snap)
    /\ appended' = <<>>
    /\ last' = Outcome("reset", None, r)
    /\ UNCHANGED <<ctor, snap, tmpdirs, sched>>

\* get_messages called and its result read at once, then dropped.
CallGetMessages ==
    /\ last' = Call("get_messages", None, "ok", Snapshot(state, heap))
    /\ UNCHANGED <<state, heap, appended, ctor, snap, tmpdirs, sched>>

StateNext ==
    \/ CallAddUser
    \/ CallAddAssistant
    \/ CallReset
    \/ CallGetMessages

StateSpec == StateInit /\ [][StateNext]_vars

----------------------------------------------------------------------------
(* Properties of ConversationState, checked under StateSpec. *)

Min(a, b) == IF a < b THEN a ELSE b

\* The newest k elements of s.
Newest(s, k) == SubSeq(s, Len(s) - k + 1, Len(s))

\* The system prompt in effect for the constructor's arguments (an absent or
\* empty argument selects the built-in prompt).
ConfiguredPrompt ==
    IF ctor.system_prompt = None \/ ctor.system_prompt = "" THEN DEFAULT_PROMPT
    ELSE ctor.system_prompt

\* C1: for max_turns >= 0, after every add_user, add_assistant or reset call
\* has returned, history holds at most 2 * max_turns messages.
C1_HistoryBounded ==
    state.max_turns >= 0 => Len(state.history) <= 2 * state.max_turns

\* C1 witness: more messages were appended than fit, and history is full.
C1_Witness ==
    /\ state.max_turns >= 1
    /\ Len(appended) > 2 * state.max_turns
    /\ Len(state.history) = 2 * state.max_turns

\* C2: trimming is FIFO.  For max_turns >= 0, history is exactly the newest
\* min(n, 2*max_turns) of the n messages appended since the last reset, in
\* append order; and with max_turns = 2 the appends user:a1, assistant:b1,
\* user:a2, assistant:b2, user:a3 leave [assistant:b1, user:a2, assistant:b2,
\* user:a3].
C2_TrimIsFIFO ==
    /\ state.max_turns >= 0 =>
          History = Newest(appended, Min(Len(appended), 2 * state.max_turns))
    /\ ( /\ state.max_turns = 2
         /\ appended = << Msg("user", "a1"), Msg("assistant", "b1"), Msg("user", "a2"),
                          Msg("assistant", "b2"), Msg("user", "a3") >> )
       => History = << Msg("assistant", "b1"), Msg("user", "a2"),
                       Msg("assistant", "b2"), Msg("user", "a3") >>

\* C2 witness: the scenario's five appends have been made with max_turns = 2.
C2_Witness ==
    /\ state.max_turns = 2
    /\ appended = << Msg("user", "a1"), Msg("assistant", "b1"), Msg("user", "a2"),
                     Msg("assistant", "b2"), Msg("user", "a3") >>
    /\ last.op = "add_user"

\* C3: in every reachable state the list get_messages returns starts with
\* the system message carrying the configured prompt, continues with the
\* current history in order, and holds exactly one system message.
C3_SnapshotSystemFirst ==
    LET s == Snapshot(state, heap) IN
    /\ Len(s) = Len(state.history) + 1
    /\ s[1] = Msg("system", ConfiguredPrompt)
    /\ \A i \in 1..Len(state.history) : s[i + 1] = heap[state.history[i]]
    /\ Cardinality({i \in 1..Len(s) : s[i].role = "system"}) = 1
    /\ last.op = "get_messages" => last.result = s

\* C3 witness: get_messages was called on a trimmed history under a custom prompt.
C3_Witness ==
    /\ last.op = "get_messages"
    /\ ctor.system_prompt = CUSTOM_PROMPT
    /\ Len(appended) > Len(state.history)
    /\ Len(state.history) >= 2

\* A step in which get_messages is called right after add_user(x) returned.
SnapshotRightAfterAddUser ==
    /\ last.op = "add_user"
    /\ last.status = "ok"
    /\ last'.op = "get_messages"

\* C4 as stated: for every configured max_turns, add_user(x) followed at once
\* by get_messages yields a list whose last element is user:x.
C4_Original ==
    [][SnapshotRightAfterAddUser =>
         last'.result[Len(last'.result)] = Msg("user", last.arg)]_vars

\* C4 amended: for every configured max_turns >= 1, add_user(x) followed at
\* once by get_messages yields a list whose last element is user:x.
C4_UserMessageLast ==
    [][(SnapshotRightAfterAddUser /\ state.max_turns >= 1) =>
         last'.result[Len(last'.result)] = Msg("user", last.arg)]_vars

\* C4 witness: get_messages was called after the add_user that overflowed
\* the history (the newest append is a user message, no reset since).
C4_Witness ==
    /\ last.op = "get_messages"
    /\ state.max_turns >= 1
    /\ Len(appended) > 2 * state.max_turns
    /\ appended[Len(appended)].role = "user"

\* The state a caller can observe.
Observable == <<Snapshot(state, heap), state.max_turns, state.system_prompt>>

\* C5: after reset the history is empty and max_turns and system_prompt are
\* what they were before it (and so what the object was constructed with);
\* a second reset leaves the observable state as the first left it.
C5_ResetIdempotent ==
    /\ [](last.op = "reset" =>
            /\ state.history = <<>>
            /\ state.max_turns = ctor.max_turns
            /\ state.system_prompt = ConfiguredPrompt
            /\ Snapshot(state, heap) = <<Msg("system", ConfiguredPrompt)>>)
    /\ [][last'.op = "reset" =>
            /\ state'.history = <<>>
            /\ state'.max_turns = state.max_turns
            /\ state'.system_prompt = state.system_prompt
            /\ last.op = "reset" => Observable' = Observable]_vars

\* C5 witness: reset has run on an object with a custom prompt and max_turns = 2.
C5_Witness ==
    /\ last.op = "reset"
    /\ ctor.system_prompt = CUSTOM_PROMPT
    /\ ctor.max_turns = 2
    /\ state.history = <<>>

\* C6: with max_turns = 0 every add_user and add_assistant call returns
\* without an error and history is empty after it.
C6_ZeroTurnsKeepsNothing ==
    state.max_turns = 0 =>
        /\ Len(state.history) = 0
        /\ last.op \in {"add_user", "add_assistant"} => last.status = "ok"

\* C6 witness: with max_turns = 0, several appends were made, the newest by add_assistant.
C6_Witness ==
    /\ state.max_turns = 0
    /\ last.op = "add_assistant"
    /\ last.status = "ok"
    /\ Len(appended) >= 3

----------------------------------------------------------------------------
(* Strings.  lower() and strip() on the strings the model uses. *)

\* str.lower()
Lower(s) ==
    CASE s = "Google" -> "google"
      [] s = "GOOGLE" -> "google"
      [] s = "Whisper" -> "whisper"
      [] s = "HF" -> "hf"
      [] s = "Ollama" -> "ollama"
      [] OTHER -> s

\* str.strip()
Strip(s) ==
    CASE s = " hello " -> "hello"
      [] s = "  " -> ""
      [] OTHER -> s

\* `x or default`: None and the empty string are falsy.
OrElse(x, default) == IF x = None \/ x = "" THEN default ELSE x

----------------------------------------------------------------------------
(* src/src/asr.py.  Confidences are in hundredths (80 is 0.8).             *)

\* What the Google recogniser does with the audio: the file cannot be read,
\* speech is recognised, no speech is recognised (UnknownValueError), or the
\* service cannot be reached (RequestError).
GoogleOutcomes ==
    {[kind |-> "bad_audio", text |-> None],
     [kind |-> "text", text |-> "hello"],
     [kind |-> "unknown_value", text |-> None],
     [kind |-> "request_error", text |-> None]}

\* transcribe_google: (text, 0.8) on success, ("", 0.0) on UnknownValueError,
\* RuntimeError on RequestError; an unreadable file raises from sr.AudioFile.
transcribe_google(o) ==
    CASE o.kind = "bad_audio"     -> [raised |-> "ValueError", text |-> None, conf |-> None]
      [] o.kind = "text"          -> [raised |-> None, text |-> o.text, conf |-> 80]
      [] o.kind = "unknown_value" -> [raised |-> None, text |-> "", conf |-> 0]
      [] OTHER                    -> [raised |-> "RuntimeError", text |-> None, conf |-> None]

\* The `segments` entry of a whisper result: absent, an empty list (no
\* segment was decoded), or a first segment with or without no_speech_prob.
Segments(present, count, has_prob, p) ==
    [present |-> present, count |-> count, has_prob |-> has_prob, no_speech_prob |-> p]

\* What whisper does: the model cannot be loaded, or transcribe returns a
\* result dict with a text (None, blank or words) and segments.
WhisperOutcomes ==
    {[kind |-> "load_error", text |-> None,      segments |-> Segments(FALSE, 0, FALSE, 0)],
     [kind |-> "result",     text |-> None,      segments |-> Segments(FALSE, 0, FALSE, 0)],
     [kind |-> "result",     text |-> "  ",      segments |-> Segments(TRUE, 0, FALSE, 0)],
     [kind |-> "result",     text |-> "  ",      segments |-> Segments(TRUE, 1, FALSE, 0)],
     [kind |-> "result",     text |-> "  ",      segments |-> Segments(TRUE, 1, TRUE, 100)],
     [kind |-> "result",     text |-> " hello ", segments |-> Segments(TRUE, 1, TRUE, 60)]}

\* result.get("segments", [{}])[0].get("no_speech_prob", 0.2), in hundredths;
\* indexing an empty list raises IndexError.
FirstNoSpeechProb(sg) ==
    IF sg.present /\ sg.count = 0 THEN [raised |-> "IndexError", value |-> None]
    ELSE IF sg.present /\ sg.has_prob THEN [raised |-> None, value |-> sg.no_speech_prob]
    ELSE [raised |-> None, value |-> 20]

\* transcribe_whisper: text = (result.get("text") or "").strip(),
\* conf = 1.0 - no_speech_prob of the first segment.
transcribe_whisper(o) ==
    IF o.kind = "load_error"
    THEN [raised |-> "RuntimeError", text |-> None, conf |-> None]
    ELSE LET text == Strip(OrElse(o.text, ""))
             p    == FirstNoSpeechProb(o.segments)
         IN  IF p.raised # None
             THEN [raised |-> p.raised, text |-> None, conf |-> None]
             ELSE [raised |-> None, text |-> text, conf |-> 100 - p.value]

\* Mutant: the comparison with "google" is case-sensitive (no lower()).
SelectedEngine_casesensitive(engine) ==
    IF OrElse(engine, "whisper") = "google" THEN "google" ELSE "whisper"

\* The engine transcribe dispatches to.
SelectedEngine(engine) == IF Lower(OrElse(engine, "whisper")) = "google" THEN "google" ELSE "whisper"

\* The engine identifiers tried: absent, empty, known in several cases, unknown.
EngineArgs == {None, "", "google", "GOOGLE", "vosk"}

\* What the environment can answer to the engine selected for `engine`.
EngineOutcomes(engine) ==
    IF SelectedEngine(engine) = "google" THEN GoogleOutcomes ELSE WhisperOutcomes

\* transcribe(wav_path, engine, api_key): one call of the selected engine.
\* `via` is the engine called and `calls` the number of engine calls made.
transcribe(engine, o) ==
    LET e == SelectedEngine(engine)
        r == IF e = "google" THEN transcribe_google(o) ELSE transcribe_whisper(o)
    IN  [raised |-> r.raised, text |-> r.text, conf |-> r.conf, via |-> e, calls |-> 1]

\* The engine found no speech in the audio: Google raised UnknownValueError,
\* whisper returned a result without text.
NoSpeech(o) ==
    \/ o.kind = "unknown_value"
    \/ o.kind = "result" /\ Strip(OrElse(o.text, "")) = ""

----------------------------------------------------------------------------
(* src/src/llm.py. *)

\* The values of LLM_BACKEND tried: unset, and the two backends.
BackendEnv == {None, "HF", "ollama"}

\* The texts a backend generates (one of them empty).
GeneratedTexts == {"b1", ""}

\* What the backend answers.  hf: the pipeline fails, or generates a text.
\* ollama: the post fails, the status is an error, or the body is a JSON
\* object whose message.content is present or not.
LLMOutcomes ==
    {[kind |-> k, content |-> None] :
        k \in {"pipeline_error", "connect_error", "http_error", "no_message", "no_content"}}
    \cup {[kind |-> "content", content |-> t] : t \in GeneratedTexts}

\* The backend chat dispatches to: os.environ.get("LLM_BACKEND", "hf").lower()
SelectedBackend(env) == IF Lower(IF env = None THEN "hf" ELSE env) = "hf" THEN "hf" ELSE "ollama"

BackendOutcomes(env) ==
    IF SelectedBackend(env) = "hf"
    THEN {o \in LLMOutcomes : o.kind \in {"pipeline_error", "content"}}
    ELSE {o \in LLMOutcomes : o.kind # "pipeline_error"}

\* chat_hf: the part of the generated text after "Assistant:", stripped.
chat_hf(messages, o) ==
    IF o.kind = "pipeline_error"
    THEN [raised |-> "RuntimeError", reply |-> None]
    ELSE [raised |-> None, reply |-> Strip(o.content)]

\* Mutant: a failed post is swallowed and answered with an empty reply.
chat_ollama_swallow(messages, o) ==
    CASE o.kind = "http_error"    -> [raised |-> "HTTPStatusError", reply |-> None]
      [] o.kind = "content"       -> [raised |-> None, reply |-> o.content]
      [] OTHER                    -> [raised |-> None, reply |-> ""]

\* chat_ollama: post, raise_for_status, data.get("message", {}).get("content", "")
chat_ollama(messages, o) ==
    CASE o.kind = "connect_error" -> [raised |-> "ConnectError", reply |-> None]
      [] o.kind = "http_error"    -> [raised |-> "HTTPStatusError", reply |-> None]
      [] o.kind = "content"       -> [raised |-> None, reply |-> o.content]
      [] OTHER                    -> [raised |-> None, reply |-> ""]

\* Mutant: when the hf pipeline fails, the ollama backend is tried next.
chat_fallback(messages, env, o) ==
    LET b == SelectedBackend(env)
        r == IF b = "hf" THEN chat_hf(messages, o) ELSE chat_ollama(messages, o)
    IN  IF b = "hf" /\ r.raised # None
        THEN [raised |-> None, reply |-> "b1", via |-> "ollama", calls |-> 2]
        ELSE [raised |-> r.raised, reply |-> r.reply, via |-> b, calls |-> 1]

\* chat(messages): one call of the selected backend.  `via` is the backend
\* called and `calls` the number of backend calls made.
chat(messages, env, o) ==
    LET b == SelectedBackend(env)
        r == IF b = "hf" THEN chat_hf(messages, o) ELSE chat_ollama(messages, o)
    IN  [raised |-> r.raised, reply |-> r.reply, via |-> b, calls |-> 1]

----------------------------------------------------------------------------
(* src/src/tts.py. *)

\* What the speech engine does: it cannot be initialised, or it writes the file.
TTSOutcomes == {"init_error", "saved"}

\* synthesize_to_wav(text, out_path)
synthesize_to_wav(text, o) ==
    IF o = "init_error" THEN [raised |-> "RuntimeError", via |-> "pyttsx3", calls |-> 1]
    ELSE [raised |-> None, via |-> "pyttsx3", calls |-> 1]

----------------------------------------------------------------------------
(* src/main.py: the server, handling one request at a time. *)

\* At most this many temporary directories are left on disk.
MaxTmp == 1

\* At most this many /reply requests between two resets.
MaxReplies == 2

\* Texts of /reply and /speak requests.
RequestTexts == {"a1", "a2"}

\* The /reply requests made since the last reset (each appends one user message).
Replies == Cardinality({i \in 1..Len(appended) : appended[i].role = "user"})

\* state = ConversationState(max_turns=int(os.environ.get("MAX_TURNS","8")))
Init ==
    /\ \E mt \in MaxTurnsChoices :
          /\ ctor = [max_turns |-> mt, system_prompt |-> None]
          /\ state = ConversationState(mt, None)
    /\ heap = <<>>
    /\ appended = <<>>
    /\ snap = <<>>
    /\ last = Call("__init__", None, "ok", None)
    /\ tmpdirs = 0
    /\ NoRequests

\* POST /reset
reset_endpoint ==
    LET r == reset(state, heap) IN
    /\ Commit(r, snap)
    /\ appended' = <<>>
    /\ last' = Request("reset", None, None, 0, "ok", "ok")
    /\ UNCHANGED <<ctor, snap, tmpdirs, sched>>

\* Mutant: every transcription starts a new conversation.
asr_state_effect_clear ==
    /\ state' = [state EXCEPT !.history = <<>>]
    /\ heap' = Collect(heap, Range(snap))
    /\ appended' = <<>>

\* The effect of /transcribe on DialogueState.
asr_state_effect == UNCHANGED <<state, heap, appended>>

\* POST /transcribe: mkdtemp, write the upload, transcribe, rmtree, return.
\* An exception from transcribe leaves the handler before rmtree.
asr_endpoint ==
    \E engine \in EngineArgs : \E o \in EngineOutcomes(engine) :
        LET form == IF engine = None THEN "whisper" ELSE engine
            r    == transcribe(form, o)
        IN
        /\ tmpdirs < MaxTmp
        /\ IF r.raised # None
           THEN /\ tmpdirs' = tmpdirs + 1
                /\ last' = Request("transcribe", [engine |-> engine, heard |-> o],
                                   r.via, r.calls, "error", r.raised)
           ELSE /\ tmpdirs' = tmpdirs
                /\ last' = Request("transcribe", [engine |-> engine, heard |-> o],
                                   r.via, r.calls, "ok",
                                   [text |-> r.text, confidence |-> r.conf])
        /\ asr_state_effect
        /\ UNCHANGED <<ctor, snap, sched>>

\* Mutant: the messages for chat are read before add_user is called.
ReplySnapshot_before(u) == get_messages(state, heap)

\* chat(state.get_messages()) follows state.add_user(data.text): the messages
\* are read from the state u that add_user left.
ReplySnapshot(u) == get_messages(u.state, u.heap)

\* POST /reply: add_user, chat(get_messages()), add_assistant, return.
reply_endpoint ==
    \E text \in RequestTexts, env \in BackendEnv : \E o \in BackendOutcomes(env) :
        LET u == add_user(state, heap, text)
            g == ReplySnapshot(u)
            sent == Deref(g.heap, g.msgs)
            c == chat(sent, env, o)
            arg == [text |-> text, env |-> env, answer |-> o,
                    sent |-> IF u.raised # None THEN <<>> ELSE sent]
            a == add_assistant(u.state, u.heap, c.reply)
        IN
        /\ Replies < MaxReplies
        /\ IF u.raised # None
           THEN /\ Commit(u, snap)
                /\ appended' = Append(appended, Msg("user", text))
                /\ last' = Request("reply", arg, None, 0, "error", u.raised)
           ELSE IF c.raised # None
           THEN /\ Commit(u, snap)
                /\ appended' = Append(appended, Msg("user", text))
                /\ last' = Request("reply", arg, c.via, c.calls, "error", c.raised)
           ELSE /\ Commit(a, snap)
                /\ appended' = appended \o <<Msg("user", text), Msg("assistant", c.reply)>>
                /\ last' = IF a.raised # None
                           THEN Request("reply", arg, c.via, c.calls, "error", a.raised)
                           ELSE Request("reply", arg, c.via, c.calls, "ok", c.reply)
        /\ UNCHANGED <<ctor, snap, tmpdirs, sched>>

\* The effect of /speak on DialogueState.
speak_state_effect == UNCHANGED <<state, heap, appended>>

\* POST /speak: mkdtemp, synthesize_to_wav, FileResponse.  The directory is
\* not removed on any path.
speak_endpoint ==
    \E text \in RequestTexts, o \in TTSOutcomes :
        LET r == synthesize_to_wav(text, o) IN
        /\ tmpdirs < MaxTmp
        /\ tmpdirs' = tmpdirs + 1
        /\ last' = IF r.raised # None
                   THEN Request("speak", [text |-> text, answer |-> o], r.via, r.calls,
                                "error", r.raised)
                   ELSE Request("speak", [text |-> text, answer |-> o], r.via, r.calls,
                                "ok", "reply.wav")
        /\ speak_state_effect
        /\ UNCHANGED <<ctor, snap, sched>>

Next ==
    \/ reset_endpoint
    \/ asr_endpoint
    \/ reply_endpoint
    \/ speak_endpoint

Spec == Init /\ [][Next]_vars

----------------------------------------------------------------------------
(* Properties of the server, checked under Spec. *)

\* The backend of a /reply request was invoked and failed.
GenerationFailed(l) ==
    /\ l.op = "reply"
    /\ l.calls = 1
    /\ l.arg.answer.kind \in {"pipeline_error", "connect_error", "http_error"}

\* C7: when the reply-generation backend fails during /reply, the request
\* ends in an error (no reply value), no assistant message is appended, and
\* the history is the history before the request with the user message
\* appended and then trimmed to the newest 2 * max_turns messages.
C7_FailedReplyKeepsUserMessage ==
    [][GenerationFailed(last') =>
         /\ last'.status = "error"
         /\ last'.result \in {"RuntimeError", "ConnectError", "HTTPStatusError"}
         /\ appended' = Append(appended, Msg("user", last'.arg.text))
         /\ LET grown == Append(History, Msg("user", last'.arg.text))
            IN  History' = Newest(grown, Min(Len(grown), 2 * state.max_turns))
         /\ state'.max_turns = state.max_turns
         /\ state'.system_prompt = state.system_prompt]_vars

\* C7 witness: a /reply whose backend failed after an earlier complete turn,
\* with max_turns = 1, so that the append of the user message trimmed.
C7_Witness ==
    /\ GenerationFailed(last)
    /\ last.status = "error"
    /\ state.max_turns = 1
    /\ Len(appended) = 3
    /\ History = <<appended[2], Msg("user", last.arg.text)>>

\* C8: /transcribe and /speak leave the ConversationState as it was, whatever
\* their input and outcome; a step that changes it is a /reply or a /reset.
C8_OnlyReplyAndResetMutate ==
    [][/\ last'.op \in {"transcribe", "speak"} => (state' = state /\ History' = History)
       /\ (state' # state \/ History' # History) => last'.op \in {"reply", "reset"}]_vars

\* C8 witness: a /transcribe that failed while the history was not empty.
C8_Witness ==
    /\ last.op = "transcribe"
    /\ last.status = "error"
    /\ Len(state.history) >= 2

\* C10: for google and for whisper, when the engine recognises no speech,
\* /transcribe returns text "" and confidence 0.0 and raises no error.
C10_NoSpeechIsEmptyResult ==
    (last.op = "transcribe" /\ NoSpeech(last.arg.heard)) =>
        /\ last.status = "ok"
        /\ last.result.text = ""
        /\ last.result.confidence = 0

----------------------------------------------------------------------------
(* AliasSpec: one ConversationState and a caller that keeps the list       *)
(* get_messages returned, mutates it once and drops it.  The mutations are *)
(* of the list itself (append, del) and of a dict in it (item assignment). *)

\* At most this many appends between two resets under AliasSpec.
MaxAliasAppends == 2

\* What the caller writes into a message.
EDITED == "edited"

AliasInit ==
    /\ \E mt \in MaxTurnsChoices :
          /\ ctor = [max_turns |-> mt, system_prompt |-> None]
          /\ state = ConversationState(mt, None)
    /\ heap = <<>>
    /\ appended = <<>>
    /\ snap = <<>>
    /\ last = Call("__init__", None, "ok", None)
    /\ tmpdirs = 0
    /\ NoRequests

\* msgs = state.get_messages(), kept by the caller.
HoldMessages ==
    LET g == get_messages(state, heap) IN
    /\ snap' = g.msgs
    /\ heap' = Collect(g.heap, Range(state.history) \cup Range(g.msgs))
    /\ last' = Call("get_messages", None, "ok", Deref(g.heap, g.msgs))
    /\ UNCHANGED <<state, appended, ctor, tmpdirs, sched>>

\* msgs.append({"role": "user", "content": EDITED}); the list is then dropped.
CallerAppend ==
    /\ snap # <<>>
    /\ snap' = <<>>
    /\ heap' = Collect(Alloc(heap, Msg("user", EDITED)), Range(state.history))
    /\ last' = Call("caller_append", None, "ok", None)
    /\ UNCHANGED <<state, appended, ctor, tmpdirs, sched>>

\* del msgs[i]; the list is then dropped.
CallerRemove ==
    \E i \in 1..Len(snap) :
        /\ snap' = <<>>
        /\ heap' = Collect(heap, Range(state.history))
        /\ last' = Call("caller_remove", i, "ok", None)
        /\ UNCHANGED <<state, appended, ctor, tmpdirs, sched>>

\* msgs[i]["content"] = EDITED; the list is then dropped.
CallerSetContent ==
    \E i \in 1..Len(snap) :
        /\ snap' = <<>>
        /\ heap' = Collect([heap EXCEPT ![snap[i]].content = EDITED], Range(state.history))
        /\ last' = Call("caller_set_content", i, "ok", None)
        /\ UNCHANGED <<state, appended, ctor, tmpdirs, sched>>

\* msgs[i]["role"] = "system"; the list is then dropped.
CallerSetRole ==
    \E i \in 1..Len(snap) :
        /\ snap' = <<>>
        /\ heap' = Collect([heap EXCEPT ![snap[i]].role = "system"], Range(state.history))
        /\ last' = Call("caller_set_role", i, "ok", None)
        /\ UNCHANGED <<state, appended, ctor, tmpdirs, sched>>

AliasNext ==
    \/ Len(appended) < MaxAliasAppends /\ AddUserCall("a1")
    \/ Len(appended) < MaxAliasAppends /\ AddAssistantCall("b1")
    \/ CallReset
    \/ HoldMessages
    \/ CallerAppend
    \/ CallerRemove
    \/ CallerSetContent
    \/ CallerSetRole

AliasSpec == AliasInit /\ [][AliasNext]_vars

\* The caller's mutations of the list it holds.
CallerOps == {"caller_append", "caller_remove", "caller_set_content", "caller_set_role"}

\* C9: get_messages returns a defensive copy: no mutation the caller makes
\* on the returned list or on a message in it changes the history that a
\* later get_messages returns.
C9_SnapshotIsDefensiveCopy ==
    [][last'.op \in CallerOps =>
         /\ History' = History
         /\ Snapshot(state', heap') = Snapshot(state, heap)]_vars

----------------------------------------------------------------------------
(* ConcSpec: the server of main.py with requests in flight at the same     *)
(* time.  Each statement of reply_endpoint, and each test and each popleft *)
(* of the loop in _trim, is a step of its own.                             *)

\* The text of the r-th /reply request.
ReqText(r) == IF r = 1 THEN "a1" ELSE IF r = 2 THEN "a2" ELSE "a3"

\* Mutant: every handler has a thread of its own.
LoopFree_threaded == TRUE

\* The event loop can run the next coroutine: none is running on it.
LoopFree == loop = NoLoop

\* state.reset() has returned this many times.
ClearsDone == Cardinality({j \in ResetIds : resets[j].pc \in {"cleared", "done"}})

\* The handler of r is between its first and its last statement.
InHandler(r) ==
    reqs[r].pc \in {"add_user", "trim_user", "pop_user", "get_messages", "chat",
                    "add_assistant", "trim_asst", "pop_asst"}

\* self.history.append({"role": role, "content": text}), by request r.
HistoryAppend(r, role, text) ==
    /\ heap' = Alloc(heap, Msg(role, text))
    /\ state' = [state EXCEPT !.history = Append(@, Fresh(heap))]
    /\ origin' = Append(origin, [req |-> r, role |-> role])
    /\ appended' = Append(appended, Msg(role, text))

\* A client sends POST /reply.
ReplyArrives(r) ==
    /\ reqs[r].pc = "idle"
    /\ reqs' = [reqs EXCEPT ![r].pc = "pending"]
    /\ UNCHANGED <<state, heap, appended, ctor, snap, last, tmpdirs, loop, resets, origin>>

\* The event loop starts the coroutine reply_endpoint of r.
ReplyStart(r) ==
    /\ reqs[r].pc = "pending"
    /\ LoopFree
    /\ loop' = r
    /\ reqs' = [reqs EXCEPT ![r].pc = "add_user"]
    /\ UNCHANGED <<state, heap, appended, ctor, snap, last, tmpdirs, resets, origin>>

\* state.add_user(data.text): the append.
ReplyAddUser(r) ==
    /\ reqs[r].pc = "add_user"
    /\ HistoryAppend(r, "user", ReqText(r))
    /\ reqs' = [reqs EXCEPT ![r].pc = "trim_user", ![r].epoch = ClearsDone]
    /\ UNCHANGED <<ctor, snap, last, tmpdirs, loop, resets>>

\* _trim: the test `len(self.history) > self.max_turns * 2`.  When it fails
\* after add_user the handler goes on; after add_assistant it returns.
ReplyTrimTest(r) ==
    /\ reqs[r].pc \in {"trim_user", "trim_asst"}
    /\ IF TrimCondition(state.history, state.max_turns)
       THEN /\ reqs' = [reqs EXCEPT ![r].pc = IF @ = "trim_user" THEN "pop_user" ELSE "pop_asst"]
            /\ loop' = loop
       ELSE IF reqs[r].pc = "trim_user"
       THEN /\ reqs' = [reqs EXCEPT ![r].pc = "get_messages"]
            /\ loop' = loop
       ELSE /\ reqs' = [reqs EXCEPT ![r].pc = "done"]
            /\ loop' = NoLoop
    /\ UNCHANGED <<state, heap, appended, ctor, snap, last, tmpdirs, resets, origin>>

\* _trim: self.history.popleft().  On an empty deque it raises IndexError,
\* which leaves the handler.
ReplyTrimPop(r) ==
    /\ reqs[r].pc \in {"pop_user", "pop_asst"}
    /\ IF state.history = <<>>
       THEN /\ reqs' = [reqs EXCEPT ![r].pc = "failed", ![r].raised = "IndexError"]
            /\ loop' = NoLoop
            /\ UNCHANGED <<state, heap, origin>>
       ELSE /\ reqs' = [reqs EXCEPT ![r].pc = IF @ = "pop_user" THEN "trim_user" ELSE "trim_asst"]
            /\ loop' = loop
            /\ state' = [state EXCEPT !.history = Tail(@)]
            /\ heap' = Collect(heap, Range(Tail(state.history)) \cup Range(snap))
            /\ origin' = Tail(origin)
    /\ UNCHANGED <<appended, ctor, snap, last, tmpdirs, resets>>

\* state.get_messages(), the argument of chat.
ReplyGetMessages(r) ==
    LET g == ReplySnapshot([state |-> state, heap |-> heap]) IN
    /\ reqs[r].pc = "get_messages"
    /\ reqs' = [reqs EXCEPT ![r].pc = "chat", ![r].sent = Deref(g.heap, g.msgs)]
    /\ UNCHANGED <<state, heap, appended, ctor, snap, last, tmpdirs, loop, resets, origin>>

\* reply = chat(...): the call blocks the event loop until the backend
\* answers; an exception leaves the handler.
ReplyChat(r) ==
    \E env \in BackendEnv : \E o \in BackendOutcomes(env) :
        LET c == chat(reqs[r].sent, env, o) IN
        /\ reqs[r].pc = "chat"
        /\ IF c.raised # None
           THEN /\ reqs' = [reqs EXCEPT ![r].pc = "failed", ![r].raised = c.raised]
                /\ loop' = NoLoop
           ELSE /\ reqs' = [reqs EXCEPT ![r].pc = "add_assistant", ![r].reply = c.reply]
                /\ loop' = loop
        /\ UNCHANGED <<state, heap, appended, ctor, snap, last, tmpdirs, resets, origin>>

\* state.add_assistant(reply): the append.
ReplyAddAssistant(r) ==
    /\ reqs[r].pc = "add_assistant"
    /\ HistoryAppend(r, "assistant", reqs[r].reply)
    /\ reqs' = [reqs EXCEPT ![r].pc = "trim_asst"]
    /\ UNCHANGED <<ctor, snap, last, tmpdirs, loop, resets>>

\* POST /reset: the event loop hands reset() to a worker thread.
ResetSubmit(j) ==
    /\ resets[j].pc = "idle"
    /\ LoopFree
    /\ resets' = [resets EXCEPT ![j].pc = "running"]
    /\ UNCHANGED <<state, heap, appended, ctor, snap, last, tmpdirs, loop, reqs, origin>>

\* The worker thread runs state.reset().
ResetClear(j) ==
    LET c == reset(state, heap) IN
    /\ resets[j].pc = "running"
    /\ Commit(c, snap)
    /\ appended' = <<>>
    /\ origin' = <<>>
    /\ resets' = [resets EXCEPT ![j].pc = "cleared", ![j].at = ClearsDone + 1]
    /\ UNCHANGED <<ctor, snap, last, tmpdirs, loop, reqs>>

\* The event loop sends the response {"ok": True} of the /reset request.
ResetRespond(j) ==
    /\ resets[j].pc = "cleared"
    /\ LoopFree
    /\ resets' = [resets EXCEPT ![j].pc = "done"]
    /\ UNCHANGED <<state, heap, appended, ctor, snap, last, tmpdirs, loop, reqs, origin>>

ConcNext ==
    \/ \E r \in ReplyIds : ReplyArrives(r)
    \/ \E r \in ReplyIds : ReplyStart(r)
    \/ \E r \in ReplyIds : ReplyAddUser(r)
    \/ \E r \in ReplyIds : ReplyTrimTest(r)
    \/ \E r \in ReplyIds : ReplyTrimPop(r)
    \/ \E r \in ReplyIds : ReplyGetMessages(r)
    \/ \E r \in ReplyIds : ReplyChat(r)
    \/ \E r \in ReplyIds : ReplyAddAssistant(r)
    \/ \E j \in ResetIds : ResetSubmit(j)
    \/ \E j \in ResetIds : ResetClear(j)
    \/ \E j \in ResetIds : ResetRespond(j)

ConcSpec == Init /\ [][ConcNext]_vars

----------------------------------------------------------------------------
(* Further properties of the server (Spec) and of ConversationState        *)
(* (StateSpec).                                                            *)

\* The engine identifiers that name the cloud engine, in any letter case.
IsGoogleName(e) == e \in {"google", "Google", "GOOGLE"}

\* The outcomes of an engine that are failures of the engine itself.
EngineFailed(o) ==
    \/ o.kind \in {"bad_audio", "request_error", "load_error"}
    \/ o.kind = "result" /\ o.segments.present /\ o.segments.count = 0

\* C11: dispatch in transcribe is total.  Every engine identifier (absent,
\* empty, any letter case, unknown) is routed to exactly one engine, which
\* is called once: google for "google" in any letter case, whisper for
\* every other value; and an error of the request is an error of that
\* engine, never of the dispatch.
C11_EngineDispatchTotal ==
    last.op = "transcribe" =>
        /\ last.calls = 1
        /\ last.via = IF IsGoogleName(last.arg.engine) THEN "google" ELSE "whisper"
        /\ last.arg.heard \in (IF last.via = "google" THEN GoogleOutcomes ELSE WhisperOutcomes)
        /\ last.status = "error" => EngineFailed(last.arg.heard)

\* C11 witness: an unknown engine name was answered by whisper, and an
\* upper-case GOOGLE would be answered by google.
C11_Witness ==
    /\ last.op = "transcribe"
    /\ last.arg.engine = "vosk"
    /\ last.via = "whisper"
    /\ last.status = "ok"
    /\ SelectedEngine("GOOGLE") = "google"

\* C12: every temporary directory a /transcribe or /speak request created
\* is gone when the request has ended, on every exit path.
C12_TempArtifactsReleased ==
    last.op \in {"transcribe", "speak"} => tmpdirs = 0

\* C14: a successful /reply appends user:text and trims, calls the backend
\* once with the system message followed by the history as it is after that
\* append, appends assistant:reply and trims, and returns the reply it
\* appended.
C14_ReplyStepsInOrder ==
    [][(last'.op = "reply" /\ last'.status = "ok") =>
         LET u         == Msg("user", last'.arg.text)
             a         == Msg("assistant", last'.result)
             grown     == Append(History, u)
             afterUser == Newest(grown, Min(Len(grown), 2 * state.max_turns))
             regrown   == Append(afterUser, a)
         IN  /\ last'.calls = 1
             /\ last'.arg.sent = <<Msg("system", state.system_prompt)>> \o afterUser
             /\ appended' = appended \o <<u, a>>
             /\ History' = Newest(regrown, Min(Len(regrown), 2 * state.max_turns))
             /\ last'.arg.answer.kind \in {"content", "no_message", "no_content"}]_vars

\* C14 witness: a second complete turn with max_turns = 1 (both appends trimmed).
C14_Witness ==
    /\ last.op = "reply"
    /\ last.status = "ok"
    /\ state.max_turns = 1
    /\ Len(appended) = 4
    /\ Len(last.arg.sent) = 3
    /\ History = <<Msg("user", last.arg.text), Msg("assistant", last.result)>>

\* The backend a request names failed.
BackendFailed(l) ==
    \/ l.op = "transcribe" /\ l.arg.heard.kind \in {"bad_audio", "request_error", "load_error"}
    \/ l.op = "reply" /\ l.arg.answer.kind \in {"pipeline_error", "connect_error", "http_error"}
    \/ l.op = "speak" /\ l.arg.answer = "init_error"

\* The backend a request selects.
ExpectedBackend(l) ==
    CASE l.op = "transcribe" -> IF IsGoogleName(l.arg.engine) THEN "google" ELSE "whisper"
      [] l.op = "reply"      -> IF l.arg.env \in {None, "hf", "HF"} THEN "hf" ELSE "ollama"
      [] OTHER               -> "pyttsx3"

\* C15: no stage is retried.  Within one /transcribe, /reply or /speak the
\* selected backend is called at most once; when that call fails the request
\* ends in an error, with no second call and no other backend called.
C15_NoRetry ==
    last.op \in {"transcribe", "reply", "speak"} =>
        /\ last.calls <= 1
        /\ last.calls = 1 => last.via = ExpectedBackend(last)
        /\ (last.calls = 1 /\ BackendFailed(last)) => last.status = "error"

\* C15 witness: a /reply whose hf pipeline failed ended in an error after one call.
C15_Witness ==
    /\ last.op = "reply"
    /\ last.arg.answer.kind = "pipeline_error"
    /\ last.calls = 1
    /\ last.via = "hf"
    /\ last.status = "error"

\* appended[i] occurs once among the messages appended since the last reset.
AppendedOnce(i) == \A j \in 1..Len(appended) : j # i => appended[j] # appended[i]

\* C16: for max_turns >= 1 and no reset since, a message is still in history
\* after fewer than 2 * max_turns later appends and is gone once 2 * max_turns
\* later appends have been made (so an orphaned user message is trimmed away).
C16_GhostEventuallyTrimmed ==
    state.max_turns >= 1 =>
        \A i \in 1..Len(appended) :
            AppendedOnce(i) =>
                ((\E k \in 1..Len(state.history) : heap[state.history[k]] = appended[i])
                   <=> Len(appended) - i < 2 * state.max_turns)

\* C16 witness: with max_turns = 2 the first message, a user message that
\* occurs once, was followed by four appends and is no longer in history.
C16_Witness ==
    /\ state.max_turns = 2
    /\ Len(appended) = 5
    /\ appended[1].role = "user"
    /\ AppendedOnce(1)
    /\ \A k \in 1..Len(state.history) : heap[state.history[k]] # appended[1]

\* Every /reply since the last reset appended its user message and its reply.
AllGenerationsSucceeded ==
    /\ Len(appended) % 2 = 0
    /\ \A i \in 1..Len(appended) :
          appended[i].role = IF i % 2 = 1 THEN "user" ELSE "assistant"

\* C17: when /reply requests run one at a time and every generation since
\* the last reset succeeded, no two adjacent messages of history have the
\* same role and a non-empty history ends with an assistant message.
C17_RolesAlternate ==
    AllGenerationsSucceeded =>
        /\ \A i \in 1..(Len(state.history) - 1) :
              heap[state.history[i]].role # heap[state.history[i + 1]].role
        /\ state.history # <<>> =>
              heap[state.history[Len(state.history)]].role = "assistant"

\* C17 witness: two complete turns with max_turns = 1, the first trimmed away.
C17_Witness ==
    /\ AllGenerationsSucceeded
    /\ state.max_turns = 1
    /\ Len(appended) = 4
    /\ Len(state.history) = 2
    /\ last.op = "reply"

----------------------------------------------------------------------------
(* Properties of requests in flight at the same time, checked under        *)
(* ConcSpec.                                                               *)

\* C13 as stated: concurrent /reply requests are not serialized: whenever
\* one request has appended its user message and waits for its reply while
\* another request is pending, the handler of the other can start (and so
\* append its user message before the first reply is appended).
C13_Original ==
    \A r \in ReplyIds, q \in ReplyIds :
        (r # q /\ reqs[r].pc = "chat" /\ reqs[q].pc = "pending") => ENABLED ReplyStart(q)

\* C13 amended: concurrent /reply requests are serialized by the event loop.
\* At most one handler is between its first and its last statement; two
\* user messages are adjacent in history only when the request of the first
\* has failed; and when a reply is about to be appended every message of
\* history is in the snapshot the reply was generated from.
C13_RepliesSerialized ==
    /\ \A r \in ReplyIds, q \in ReplyIds : (InHandler(r) /\ InHandler(q)) => r = q
    /\ \A i \in 1..(Len(origin) - 1) :
          (origin[i].role = "user" /\ origin[i + 1].role = "user")
              => reqs[origin[i].req].pc = "failed"
    /\ \A r \in ReplyIds :
          reqs[r].pc = "add_assistant" => Range(History) \subseteq Range(reqs[r].sent)

\* C13 witness: two /reply requests are in flight at the same time, one
\* waiting for its reply after its user message was appended.
C13_Witness ==
    \E r \in ReplyIds, q \in ReplyIds :
        /\ r # q
        /\ reqs[r].pc = "chat"
        /\ reqs[q].pc = "pending"
        /\ \E i \in 1..Len(origin) : origin[i] = [req |-> r, role |-> "user"]

\* C18: for max_turns >= 0, under every interleaving of a /reset request
\* with a /reply request, _trim never calls popleft on an empty history: no
\* /reply request fails with IndexError.
C18_TrimNeverPopsEmpty ==
    state.max_turns >= 0 => \A r \in ReplyIds : reqs[r].raised # "IndexError"

\* C19: a reset is not undone by a turn in flight: every assistant message
\* in history was appended by a request whose user message was appended
\* after the last completed reset cleared the history.
C19_ResetNotUndone ==
    \A i \in 1..Len(origin) :
        origin[i].role = "assistant" =>
            \A j \in ResetIds :
                resets[j].pc = "done" => reqs[origin[i].req].epoch >= resets[j].at

====
